---- MODULE Spec2Model ----
(***************************************************************************)
(* Model of src/multi_drag.cpp: the object registry of the "multiple       *)
(* draggable objects" program (SDLApp::ObjectManager) driven by the mouse  *)
(* events that SDLApp::handleEvents dispatches (Spec), and the run loop of *)
(* that program with its event queue (SpecLoop, SpecLoopFair); and the     *)
(* single-rectangle program of the same file (MouseState, SpecMouse).      *)
(***************************************************************************)
EXTENDS Integers, Sequences, FiniteSets, TLC

(* ---------------- program constants ---------------- *)
WINDOW_WIDTH == 800
WINDOW_HEIGHT == 600
OBJECT_SIZE == 80
ALPHA_OPAQUE == 255
SDL_BUTTON_LEFT == 1
SDL_BUTTON_RIGHT == 3
SDLK_ESCAPE == 27
SDLK_a == 97

(* ---------------- bounds of the model ---------------- *)
\* number of events delivered in one run
MaxEvents == 3
\* capacity of the registry (3 initial objects plus created ones)
MaxObjects == 5

(* ---------------- inputs ---------------- *)
\* seeds std::random_device may hand to the generator
Seeds == {0, 97}

\* cursor positions of the delivered events: inside the first two initial
\* objects, the last pixel inside the first one, on its right and bottom edge, a point whose new object
\* overlaps the first one, the canvas corners (the bottom-right one lies inside
\* an object created at (750,550)) and a point near the bottom-right corner.
Points ==
  { <<110, 110>>, <<179, 179>>, <<310, 210>>,
    <<180, 110>>, <<110, 180>>, <<60, 60>>,
    <<0, 0>>, <<799, 599>>, <<750, 550>> }

Buttons == {SDL_BUTTON_LEFT, SDL_BUTTON_RIGHT}

\* objects, rng: the registry; ev: the event dispatched last; nev: number of
\* events the environment has delivered; prev: the event and the registry
\* before the last dispatch
VARIABLES objects, rng, ev, nev, prev

\* running: SDLApp::running; pc: position of SDLApp::run; queue: the SDL event
\* queue; stopFrames: number of render() calls made while running is false
VARIABLES running, pc, queue, stopFrames

loopVars == <<running, pc, queue, stopFrames>>

\* state: the MouseState of the single-rectangle program
VARIABLE state

vars == <<objects, rng, ev, nev, prev, running, pc, queue, stopFrames, state>>

(* ---------------- random colours ---------------- *)
\* The generator is a deterministic stream over its state; the model keeps
\* the stream abstract as a full-period byte generator.
RngNext(s) == (s * 37 + 11) % 256

\* colorDist(rng): a value in 0..255 drawn from the current generator state
ColorDist(s) == s % 256

generateRandomColor(s) ==
  [ r |-> ColorDist(s),
    g |-> ColorDist(RngNext(s)),
    b |-> ColorDist(RngNext(RngNext(s))),
    a |-> ALPHA_OPAQUE ]

RngAfterColor(s) == RngNext(RngNext(RngNext(s)))

(* ---------------- DraggableObject ---------------- *)
DraggableObject(x, y, w, h, c) ==
  [ rect |-> [x |-> x, y |-> y, w |-> w, h |-> h],
    color |-> c,
    isDragging |-> FALSE,
    dragOffsetX |-> 0,
    dragOffsetY |-> 0 ]

\* variant: closed test on the far edges
containsPoint_closed(o, x, y) ==
  /\ x >= o.rect.x
  /\ x <= o.rect.x + o.rect.w
  /\ y >= o.rect.y
  /\ y <= o.rect.y + o.rect.h

containsPoint(o, x, y) ==
  /\ x >= o.rect.x
  /\ x < o.rect.x + o.rect.w
  /\ y >= o.rect.y
  /\ y < o.rect.y + o.rect.h

\* std::clamp(v, lo, hi)
clamp(v, lo, hi) == IF v < lo THEN lo ELSE IF hi < v THEN hi ELSE v

\* variant: clamped against the window size, the object's size not subtracted
drag_windowOnly(o, mouseX, mouseY) ==
  IF o.isDragging
  THEN [o EXCEPT !.rect.x = clamp(mouseX - o.dragOffsetX, 0, WINDOW_WIDTH),
                 !.rect.y = clamp(mouseY - o.dragOffsetY, 0, WINDOW_HEIGHT)]
  ELSE o

\* variant: the isDragging test is missing
drag_unconditional(o, mouseX, mouseY) ==
  [o EXCEPT !.rect.x = clamp(mouseX - o.dragOffsetX, 0, WINDOW_WIDTH - o.rect.w),
            !.rect.y = clamp(mouseY - o.dragOffsetY, 0, WINDOW_HEIGHT - o.rect.h)]

\* variant: the grab offset is recomputed from the clamped position
drag_rebase(o, mouseX, mouseY) ==
  IF o.isDragging
  THEN LET nx == clamp(mouseX - o.dragOffsetX, 0, WINDOW_WIDTH - o.rect.w)
           ny == clamp(mouseY - o.dragOffsetY, 0, WINDOW_HEIGHT - o.rect.h)
       IN [o EXCEPT !.rect.x = nx, !.rect.y = ny,
                    !.dragOffsetX = mouseX - nx, !.dragOffsetY = mouseY - ny]
  ELSE o

drag(o, mouseX, mouseY) ==
  IF o.isDragging
  THEN [o EXCEPT !.rect.x = clamp(mouseX - o.dragOffsetX, 0, WINDOW_WIDTH - o.rect.w),
                 !.rect.y = clamp(mouseY - o.dragOffsetY, 0, WINDOW_HEIGHT - o.rect.h)]
  ELSE o

(* ---------------- ObjectManager ---------------- *)
\* variant: an object that would not fit in the window is not created
addObject_onlyInside(objs, s, x, y) ==
  IF x <= WINDOW_WIDTH - OBJECT_SIZE /\ y <= WINDOW_HEIGHT - OBJECT_SIZE
  THEN Append(objs, DraggableObject(x, y, OBJECT_SIZE, OBJECT_SIZE, generateRandomColor(s)))
  ELSE objs

\* variant: the new object is clamped into the window
addObject_clamped(objs, s, x, y) ==
  Append(objs, DraggableObject(clamp(x, 0, WINDOW_WIDTH - OBJECT_SIZE),
                               clamp(y, 0, WINDOW_HEIGHT - OBJECT_SIZE),
                               OBJECT_SIZE, OBJECT_SIZE, generateRandomColor(s)))

\* objects.emplace_back(x, y, 80, 80, color)
addObject(objs, s, x, y) ==
  Append(objs, DraggableObject(x, y, OBJECT_SIZE, OBJECT_SIZE, generateRandomColor(s)))

\* the reverse scan of handleMouseDown: index of the first object, from the
\* back of the vector, that contains the point; 0 when the scan reaches rend()
RECURSIVE ReverseScan(_, _, _, _)
ReverseScan(objs, i, x, y) ==
  IF i = 0 THEN 0
  ELSE IF containsPoint(objs[i], x, y) THEN i
  ELSE ReverseScan(objs, i - 1, x, y)

\* variant: the clicked element is exchanged with the last one
GrabAndMoveToFront_swap(objs, i, mouseX, mouseY) ==
  LET obj == [objs[i] EXCEPT !.isDragging = TRUE,
                             !.dragOffsetX = mouseX - objs[i].rect.x,
                             !.dragOffsetY = mouseY - objs[i].rect.y]
      n == Len(objs)
  IN [k \in 1..n |-> IF k = n THEN obj ELSE IF k = i THEN objs[n] ELSE objs[k]]

\* variant: the vector is rotated left by one instead of moving element i
GrabAndMoveToFront_rotate(objs, i, mouseX, mouseY) ==
  LET obj == [objs[i] EXCEPT !.isDragging = TRUE,
                             !.dragOffsetX = mouseX - objs[i].rect.x,
                             !.dragOffsetY = mouseY - objs[i].rect.y]
      marked == [objs EXCEPT ![i] = obj]
  IN Append(Tail(marked), Head(marked))

\* variant: the copy is taken after the erase, when the iterator designates
\* the element that followed the clicked one
GrabAndMoveToFront_copyAfterErase(objs, i, mouseX, mouseY) ==
  LET obj == [objs[i] EXCEPT !.isDragging = TRUE,
                             !.dragOffsetX = mouseX - objs[i].rect.x,
                             !.dragOffsetY = mouseY - objs[i].rect.y]
      rest == SubSeq(objs, 1, i - 1) \o SubSeq(objs, i + 1, Len(objs))
  IN Append(rest, IF i < Len(objs) THEN objs[i + 1] ELSE obj)

\* body of the if inside the loop: flag and offsets set in place, then the
\* element is copied, erased and pushed back
GrabAndMoveToFront(objs, i, mouseX, mouseY) ==
  LET obj == [objs[i] EXCEPT !.isDragging = TRUE,
                             !.dragOffsetX = mouseX - objs[i].rect.x,
                             !.dragOffsetY = mouseY - objs[i].rect.y]
  IN Append(SubSeq(objs, 1, i - 1) \o SubSeq(objs, i + 1, Len(objs)), obj)

\* variant: only the topmost object is released
ClearDragging_lastOnly(objs) ==
  [k \in 1..Len(objs) |-> IF k = Len(objs) THEN [objs[k] EXCEPT !.isDragging = FALSE] ELSE objs[k]]

\* variant: the release also forgets the grab offsets
ClearDragging_resetOffsets(objs) ==
  [k \in 1..Len(objs) |->
     [objs[k] EXCEPT !.isDragging = FALSE, !.dragOffsetX = 0, !.dragOffsetY = 0]]

ClearDragging(objs) == [k \in 1..Len(objs) |-> [objs[k] EXCEPT !.isDragging = FALSE]]

DragAll(objs, x, y) == [k \in 1..Len(objs) |-> drag(objs[k], x, y)]

(* ---------------- initial state: ObjectManager() ---------------- *)
InitObjects(seed) ==
  LET s1 == RngAfterColor(seed)
      s2 == RngAfterColor(s1)
  IN addObject(addObject(addObject(<<>>, seed, 100, 100), s1, 300, 200), s2, 500, 300)

\* the multi-object program has no MouseState
NoMouseState ==
  [x |-> 0, y |-> 0, isDragging |-> FALSE, rect |-> [x |-> 0, y |-> 0, w |-> 0, h |-> 0]]

NoEvent == [type |-> "none", button |-> 0, x |-> 0, y |-> 0, sym |-> 0]

Init ==
  \E seed \in Seeds :
    /\ objects = InitObjects(seed)
    /\ rng = RngAfterColor(RngAfterColor(RngAfterColor(seed)))
    /\ ev = NoEvent
    /\ nev = 0
    /\ prev = [ev |-> NoEvent, objects |-> <<>>]
    /\ running = TRUE
    /\ pc = "test"
    /\ queue = <<>>
    /\ stopFrames = 0
    /\ state = NoMouseState

(* ---------------- events ---------------- *)
\* ObjectManager::handleMouseDown on the registry
handleMouseDown(button, mouseX, mouseY) ==
  LET hit == ReverseScan(objects, Len(objects), mouseX, mouseY)
  IN IF button = SDL_BUTTON_LEFT
     THEN IF hit # 0
          THEN /\ objects' = GrabAndMoveToFront(objects, hit, mouseX, mouseY)
               /\ rng' = rng
          ELSE /\ Len(objects) < MaxObjects
               /\ objects' = addObject(objects, rng, mouseX, mouseY)
               /\ rng' = RngAfterColor(rng)
     ELSE UNCHANGED <<objects, rng>>

\* variant: the button test is missing
handleMouseUp_anyButton(button) ==
  /\ objects' = ClearDragging(objects)
  /\ rng' = rng

handleMouseUp(button) ==
  /\ objects' = IF button = SDL_BUTTON_LEFT THEN ClearDragging(objects) ELSE objects
  /\ rng' = rng

handleMouseMotion(mouseX, mouseY) ==
  /\ objects' = DragAll(objects, mouseX, mouseY)
  /\ rng' = rng

\* one event taken from the environment and dispatched at once; ev keeps the
\* fields of the event that the handlers read
Delivered(e) ==
  /\ ev' = e
  /\ nev' = nev + 1
  /\ prev' = [ev |-> ev, objects |-> objects]
  /\ UNCHANGED loopVars
  /\ state' = state

MouseDown ==
  \E b \in Buttons, p \in Points :
    /\ nev < MaxEvents
    /\ handleMouseDown(b, p[1], p[2])
    /\ Delivered([type |-> "down", button |-> b, x |-> p[1], y |-> p[2], sym |-> 0])

MouseUp ==
  \E b \in Buttons :
    /\ nev < MaxEvents
    /\ handleMouseUp(b)
    /\ Delivered([type |-> "up", button |-> b, x |-> 0, y |-> 0, sym |-> 0])

MouseMotion ==
  \E p \in Points :
    /\ nev < MaxEvents
    /\ handleMouseMotion(p[1], p[2])
    /\ Delivered([type |-> "motion", button |-> 0, x |-> p[1], y |-> p[2], sym |-> 0])

Next == MouseDown \/ MouseUp \/ MouseMotion

Spec == Init /\ [][Next]_vars

(* ---------------- the run loop: SDLApp::run and handleEvents ---------------- *)
MouseEvent(t, b, x, y) == [type |-> t, button |-> b, x |-> x, y |-> y, sym |-> 0]
KeyEvent(t, k) == [type |-> t, button |-> 0, x |-> 0, y |-> 0, sym |-> k]

\* events the environment may put into the SDL queue: a quit request, key
\* presses and a key release, and mouse events of both buttons
LoopEvents ==
  { KeyEvent("quit", 0),
    KeyEvent("keydown", SDLK_ESCAPE), KeyEvent("keydown", SDLK_a),
    KeyEvent("keyup", SDLK_ESCAPE),
    MouseEvent("down", SDL_BUTTON_LEFT, 110, 110),
    MouseEvent("down", SDL_BUTTON_LEFT, 750, 550),
    MouseEvent("down", SDL_BUTTON_RIGHT, 110, 110),
    MouseEvent("up", SDL_BUTTON_LEFT, 0, 0),
    MouseEvent("motion", 0, 0, 0) }

\* number of primary presses waiting in the queue
RECURSIVE PendingPresses(_)
PendingPresses(q) ==
  IF q = <<>> THEN 0
  ELSE (IF Head(q).type = "down" /\ Head(q).button = SDL_BUTTON_LEFT THEN 1 ELSE 0)
       + PendingPresses(Tail(q))

\* the environment appends an event to the queue at any time
PostEvent ==
  \E e \in LoopEvents :
    /\ nev < MaxEvents
    /\ Len(objects) + PendingPresses(queue) < MaxObjects
    /\ queue' = Append(queue, e)
    /\ nev' = nev + 1
    /\ UNCHANGED <<objects, rng, ev, prev, running, pc, stopFrames, state>>

\* variant: every key press stops the loop
Dispatch_anyKey(e) ==
  CASE e.type = "quit" -> running' = FALSE /\ UNCHANGED <<objects, rng>>
    [] e.type = "down" -> handleMouseDown(e.button, e.x, e.y) /\ running' = running
    [] e.type = "up" -> handleMouseUp(e.button) /\ running' = running
    [] e.type = "motion" -> handleMouseMotion(e.x, e.y) /\ running' = running
    [] e.type = "keydown" -> running' = FALSE /\ UNCHANGED <<objects, rng>>
    [] OTHER -> UNCHANGED <<objects, rng, running>>

\* the switch of handleEvents
Dispatch(e) ==
  CASE e.type = "quit" -> running' = FALSE /\ UNCHANGED <<objects, rng>>
    [] e.type = "down" -> handleMouseDown(e.button, e.x, e.y) /\ running' = running
    [] e.type = "up" -> handleMouseUp(e.button) /\ running' = running
    [] e.type = "motion" -> handleMouseMotion(e.x, e.y) /\ running' = running
    [] e.type = "keydown" ->
         /\ running' = IF e.sym = SDLK_ESCAPE THEN FALSE ELSE running
         /\ UNCHANGED <<objects, rng>>
    [] OTHER -> UNCHANGED <<objects, rng, running>>

\* while (running)
TestRunning ==
  /\ pc = "test"
  /\ pc' = IF running THEN "poll" ELSE "exit"
  /\ UNCHANGED <<objects, rng, ev, nev, prev, running, queue, stopFrames, state>>

\* while (SDL_PollEvent(&event)) switch (event.type)
PollEvent ==
  /\ pc = "poll"
  /\ IF queue # <<>>
     THEN /\ Dispatch(Head(queue))
          /\ queue' = Tail(queue)
          /\ ev' = Head(queue)
          /\ prev' = [ev |-> ev, objects |-> objects]
          /\ pc' = "poll"
     ELSE /\ pc' = "render"
          /\ UNCHANGED <<objects, rng, ev, prev, running, queue>>
  /\ UNCHANGED <<nev, stopFrames, state>>

Render ==
  /\ pc = "render"
  /\ pc' = "delay"
  /\ stopFrames' = IF running THEN stopFrames ELSE stopFrames + 1
  /\ UNCHANGED <<objects, rng, ev, nev, prev, running, queue, state>>

\* SDL_Delay(16)
Delay ==
  /\ pc = "delay"
  /\ pc' = "test"
  /\ UNCHANGED <<objects, rng, ev, nev, prev, running, queue, stopFrames, state>>

LoopStep == TestRunning \/ PollEvent \/ Render \/ Delay

NextLoop == PostEvent \/ TestRunning \/ PollEvent \/ Render \/ Delay

SpecLoop == Init /\ [][NextLoop]_vars

\* the program is the only thread and takes its next step whenever it has one
SpecLoopFair == Init /\ [][NextLoop]_vars /\ WF_vars(LoopStep)

(* ---------------- the single-rectangle program ---------------- *)
RECT_SIZE == 100

\* values the fields x and y, which initMouseState leaves unset, may hold
Indeterminate == {0, -7}

\* cursor positions inside the window: inside the rectangle, on its far
\* corner, just right of it, just above it, and the window corners
MousePoints ==
  { <<400, 300>>, <<450, 350>>, <<451, 300>>, <<400, 249>>, <<0, 0>>, <<799, 599>> }

initMouseState(ux, uy) ==
  [ x |-> ux, y |-> uy, isDragging |-> FALSE,
    rect |-> [ x |-> WINDOW_WIDTH \div 2 - 50, y |-> WINDOW_HEIGHT \div 2 - 50,
               w |-> RECT_SIZE, h |-> RECT_SIZE ] ]

\* case SDL_MOUSEBUTTONDOWN
MouseStateDown(st, button, mouseX, mouseY) ==
  IF button = SDL_BUTTON_LEFT
  THEN IF /\ mouseX >= st.rect.x /\ mouseX <= st.rect.x + st.rect.w
          /\ mouseY >= st.rect.y /\ mouseY <= st.rect.y + st.rect.h
       THEN [st EXCEPT !.isDragging = TRUE,
                       !.x = mouseX - st.rect.x,
                       !.y = mouseY - st.rect.y]
       ELSE st
  ELSE st

\* case SDL_MOUSEBUTTONUP
MouseStateUp(st, button) ==
  IF button = SDL_BUTTON_LEFT /\ st.isDragging
  THEN [st EXCEPT !.isDragging = FALSE]
  ELSE st

\* variant: the right and bottom tests leave out the size of the rectangle
MouseStateMotion_noSize(st, mx, my) ==
  IF st.isDragging
  THEN LET x0 == mx - st.x
           y0 == my - st.y
           x1 == IF x0 < 0 THEN 0 ELSE x0
           y1 == IF y0 < 0 THEN 0 ELSE y0
           x2 == IF x1 > WINDOW_WIDTH THEN WINDOW_WIDTH - st.rect.w ELSE x1
           y2 == IF y1 > WINDOW_HEIGHT THEN WINDOW_HEIGHT - st.rect.h ELSE y1
       IN [st EXCEPT !.rect.x = x2, !.rect.y = y2]
  ELSE st

\* case SDL_MOUSEMOTION: the four tests in the order of the source
MouseStateMotion(st, mx, my) ==
  IF st.isDragging
  THEN LET x0 == mx - st.x
           y0 == my - st.y
           x1 == IF x0 < 0 THEN 0 ELSE x0
           y1 == IF y0 < 0 THEN 0 ELSE y0
           x2 == IF x1 + st.rect.w > WINDOW_WIDTH THEN WINDOW_WIDTH - st.rect.w ELSE x1
           y2 == IF y1 + st.rect.h > WINDOW_HEIGHT THEN WINDOW_HEIGHT - st.rect.h ELSE y1
       IN [st EXCEPT !.rect.x = x2, !.rect.y = y2]
  ELSE st

InitMouse ==
  \E ux \in Indeterminate, uy \in Indeterminate :
    /\ state = initMouseState(ux, uy)
    /\ ev = NoEvent
    /\ nev = 0
    /\ objects = <<>>
    /\ rng = 0
    /\ prev = [ev |-> NoEvent, objects |-> <<>>]
    /\ running = TRUE
    /\ pc = "poll"
    /\ queue = <<>>
    /\ stopFrames = 0

\* handleMouseEvent applied to one event of the queue
MouseHandled(e) ==
  /\ ev' = e
  /\ nev' = nev + 1
  /\ UNCHANGED <<objects, rng, prev, running, pc, queue, stopFrames>>

DemoMouseDown ==
  \E b \in Buttons, p \in MousePoints :
    /\ nev < MaxEvents
    /\ state' = MouseStateDown(state, b, p[1], p[2])
    /\ MouseHandled(MouseEvent("down", b, p[1], p[2]))

DemoMouseUp ==
  \E b \in Buttons :
    /\ nev < MaxEvents
    /\ state' = MouseStateUp(state, b)
    /\ MouseHandled(MouseEvent("up", b, 0, 0))

DemoMouseMotion ==
  \E p \in MousePoints :
    /\ nev < MaxEvents
    /\ state' = MouseStateMotion(state, p[1], p[2])
    /\ MouseHandled(MouseEvent("motion", 0, p[1], p[2]))

NextMouse == DemoMouseDown \/ DemoMouseUp \/ DemoMouseMotion

SpecMouse == InitMouse /\ [][NextMouse]_vars

(* ======================= properties ======================= *)
IsLeftDown(e) == e.type = "down" /\ e.button = SDL_BUTTON_LEFT
IsLeftUp(e) == e.type = "up" /\ e.button = SDL_BUTTON_LEFT

MaxOf(S) == CHOOSE m \in S : \A n \in S : n <= m
Lower(a, b) == IF a <= b THEN a ELSE b
Higher(a, b) == IF a >= b THEN a ELSE b

\* the rectangle lies fully inside the canvas
InCanvas(o) ==
  /\ 0 <= o.rect.x /\ o.rect.x <= WINDOW_WIDTH - o.rect.w
  /\ 0 <= o.rect.y /\ o.rect.y <= WINDOW_HEIGHT - o.rect.h

\* indices of the objects whose bounds contain (px, py), half-open
HitSet(objs, px, py) ==
  { k \in 1..Len(objs) :
      /\ objs[k].rect.x <= px /\ px - objs[k].rect.x < objs[k].rect.w
      /\ objs[k].rect.y <= py /\ py - objs[k].rect.y < objs[k].rect.h }

Dragging(objs) == { k \in 1..Len(objs) : objs[k].isDragging }

\* C1: at most one object of the registry has isDragging = TRUE, in every
\* reachable state (two primary presses with no release between included).
C1_AtMostOneDragging == Cardinality(Dragging(objects)) <= 1

\* C2: every object with isDragging = TRUE lies fully inside the 800x600
\* canvas, in every reachable state.
C2_DraggingInsideCanvas == \A k \in Dragging(objects) : InCanvas(objects[k])

\* C3: in the state right after a move event every object of the registry,
\* dragging or not, lies fully inside the canvas.
C3_AllInsideAfterMove ==
  ev.type = "motion" => \A k \in 1..Len(objects) : InCanvas(objects[k])

\* C4: a primary press selects (grabs and brings to the end) the object of
\* highest index among those whose bounds contain the point under the
\* half-open test, and selects none (a new object is appended and no flag or
\* position of an existing object changes) exactly when no object contains
\* the point; a point on the right or bottom edge is not a hit.
C4_PressSelectsTopmost ==
  [][ IsLeftDown(ev') =>
        LET H == HitSet(objects, ev'.x, ev'.y)
            n == Len(objects)
        IN IF H = {}
           THEN /\ Len(objects') = n + 1
                /\ Dragging(objects') = Dragging(objects)
           ELSE /\ Len(objects') = n
                /\ objects'[n].isDragging
                /\ objects'[n].rect = objects[MaxOf(H)].rect
                /\ objects'[n].color = objects[MaxOf(H)].color
                /\ \A k \in H \ {MaxOf(H)} : 
                     \E j \in 1..(n - 1) : objects'[j] = objects[k]
    ]_vars

\* C4 witness: a primary press at a point that two objects contain has
\* grabbed the upper one.
C4_Witness ==
  /\ IsLeftDown(ev)
  /\ objects[Len(objects)].isDragging
  /\ Cardinality(HitSet(objects, ev.x, ev.y)) >= 2
  /\ Len(objects) \in HitSet(objects, ev.x, ev.y)
  /\ \E k \in HitSet(objects, ev.x, ev.y) : ~objects[k].isDragging

\* C5: a primary press at (mx,my) that hits index i yields the old sequence
\* with element i removed and appended: the hit object is last, dragging,
\* with dragOffset = (mx - bounds.x, my - bounds.y), bounds and colour
\* unchanged; the other objects keep their order and all their fields.
C5_HitMovesToEnd ==
  [][ (IsLeftDown(ev') /\ HitSet(objects, ev'.x, ev'.y) # {}) =>
        LET i == MaxOf(HitSet(objects, ev'.x, ev'.y))
            n == Len(objects)
        IN /\ Len(objects') = n
           /\ \A k \in 1..(i - 1) : objects'[k] = objects[k]
           /\ \A k \in (i + 1)..n : objects'[k - 1] = objects[k]
           /\ objects'[n].isDragging
           /\ objects'[n].dragOffsetX = ev'.x - objects[i].rect.x
           /\ objects'[n].dragOffsetY = ev'.y - objects[i].rect.y
           /\ objects'[n].rect = objects[i].rect
           /\ objects'[n].color = objects[i].color
    ]_vars

\* C5 witness: the first initial object was hit at (110,110) and is now last,
\* behind it the second and third initial objects in their order.
C5_Witness ==
  /\ IsLeftDown(ev) /\ ev.x = 110 /\ ev.y = 110
  /\ Len(objects) = 3
  /\ objects[3].rect.x = 100 /\ objects[3].isDragging
  /\ objects[3].dragOffsetX = 10 /\ objects[3].dragOffsetY = 10
  /\ objects[1].rect.x = 300 /\ objects[2].rect.x = 500

\* C6: an object is dragging only if an earlier primary press hit it and no
\* primary release was processed since: nothing is dragging initially, a flag
\* turns true only on the object a primary press hits, a created object is
\* not dragging, and after a primary release nothing is dragging.
C6_DraggingOnlyAfterHit ==
  /\ Dragging(objects) = {}
  /\ [][ LET H == HitSet(objects, ev'.x, ev'.y)
             n == Len(objects)
             grabbed == IsLeftDown(ev') /\ H # {}
             top == MaxOf(H)
         IN /\ IsLeftUp(ev') => Dragging(objects') = {}
            /\ \A k \in Dragging(objects') :
                 IF grabbed
                 THEN \/ k = n
                      \/ k < top /\ objects[k].isDragging
                      \/ top <= k /\ k < n /\ objects[k + 1].isDragging
                 ELSE k <= n /\ objects[k].isDragging
       ]_vars

\* C6 witness: an object grabbed by a press is still dragging after a move,
\* while an object created by a press is not dragging.
C6_Witness ==
  /\ ev.type = "motion"
  /\ Dragging(objects) # {}
  /\ Len(objects) > 3
  /\ \E k \in 1..Len(objects) : ~objects[k].isDragging

\* C7: the registry starts with three 80x80 idle objects at (100,100),
\* (300,200), (500,300); its length never decreases, grows by exactly one on
\* a primary press that hits nothing and is unchanged by every other event.
C7_RegistryGrowth ==
  /\ Len(objects) = 3
  /\ <<objects[1].rect.x, objects[1].rect.y>> = <<100, 100>>
  /\ <<objects[2].rect.x, objects[2].rect.y>> = <<300, 200>>
  /\ <<objects[3].rect.x, objects[3].rect.y>> = <<500, 300>>
  /\ \A k \in 1..3 : /\ objects[k].rect.w = 80 /\ objects[k].rect.h = 80
                     /\ ~objects[k].isDragging
  /\ [][ /\ Len(objects') >= Len(objects)
         /\ IF IsLeftDown(ev') /\ HitSet(objects, ev'.x, ev'.y) = {}
            THEN Len(objects') = Len(objects) + 1
            ELSE Len(objects') = Len(objects)
       ]_vars

\* C7 witness: two objects were created and the last event, a release or a
\* move, left the five objects in place.
C7_Witness ==
  /\ Len(objects) = 5
  /\ ev.type \in {"up", "motion"}

\* C8: a primary press at (x,y) that hits nothing appends one idle object
\* with bounds exactly (x,y,80,80), not clamped to the canvas, and leaves
\* every existing object and its position in the sequence unchanged.
C8_MissAppendsUnclamped ==
  [][ (IsLeftDown(ev') /\ HitSet(objects, ev'.x, ev'.y) = {}) =>
        LET n == Len(objects)
        IN /\ Len(objects') = n + 1
           /\ objects'[n + 1].rect = [x |-> ev'.x, y |-> ev'.y, w |-> 80, h |-> 80]
           /\ ~objects'[n + 1].isDragging
           /\ \A k \in 1..n : objects'[k] = objects[k]
    ]_vars

\* C8 witness: the press at (750,550) created an object that reaches beyond
\* the right and bottom border of the canvas.
C8_Witness ==
  /\ IsLeftDown(ev) /\ ev.x = 750 /\ ev.y = 550
  /\ objects[Len(objects)].rect.x = 750 /\ objects[Len(objects)].rect.y = 550
  /\ objects[Len(objects)].rect.x > WINDOW_WIDTH - objects[Len(objects)].rect.w
  /\ ~objects[Len(objects)].isDragging

\* C9: after a move to (mx,my) every object that was dragging has
\* bounds.x = clamp(mx - dragOffset.x, 0, 800 - w) and bounds.y likewise with
\* 600 - h; when the unclamped values are in range the grab point is exactly
\* under the cursor.
C9_MoveClamps ==
  [][ ev'.type = "motion" =>
        /\ Len(objects') = Len(objects)
        /\ \A k \in Dragging(objects) :
             LET o == objects[k]
                 ux == ev'.x - o.dragOffsetX
                 uy == ev'.y - o.dragOffsetY
             IN /\ objects'[k].rect.x = Lower(Higher(ux, 0), 800 - o.rect.w)
                /\ objects'[k].rect.y = Lower(Higher(uy, 0), 600 - o.rect.h)
                /\ (0 <= ux /\ ux <= 800 - o.rect.w) =>
                      objects'[k].rect.x + objects'[k].dragOffsetX = ev'.x
                /\ (0 <= uy /\ uy <= 600 - o.rect.h) =>
                      objects'[k].rect.y + objects'[k].dragOffsetY = ev'.y
    ]_vars

\* C9 witness: a dragging object was moved by a move event and its grab
\* point is under the cursor.
C9_Witness ==
  /\ ev.type = "motion"
  /\ \E k \in Dragging(objects) :
       /\ objects[k].rect.x + objects[k].dragOffsetX = ev.x
       /\ objects[k].rect.y + objects[k].dragOffsetY = ev.y
       /\ objects[k].rect.x \notin {100, 300, 500, 60, 180, 110, 750, 0}

\* C10: while an object is dragging no event other than a primary release
\* (a move, a further press at any point, a non-primary button event)
\* changes its dragOffset.
C10_OffsetFixedDuringDrag ==
  [][ ~IsLeftUp(ev') =>
        LET H == HitSet(objects, ev'.x, ev'.y)
            n == Len(objects)
            grabbed == IsLeftDown(ev') /\ H # {}
            top == MaxOf(H)
        IN \A j \in Dragging(objects) :
             LET k == IF ~grabbed THEN j
                      ELSE IF j = top THEN n
                      ELSE IF j < top THEN j ELSE j - 1
             IN /\ objects'[k].dragOffsetX = objects[j].dragOffsetX
                /\ objects'[k].dragOffsetY = objects[j].dragOffsetY
    ]_vars

\* C11: a second consecutive primary release leaves the whole registry as it
\* was after the first one, and a move processed while no object is dragging
\* leaves the whole registry unchanged.
C11_ReleaseAndIdleMoveIdempotent ==
  [][ /\ (IsLeftUp(ev) /\ IsLeftUp(ev')) => (objects' = objects /\ rng' = rng)
      /\ (ev'.type = "motion" /\ Dragging(objects) = {}) =>
            (objects' = objects /\ rng' = rng)
    ]_vars

\* C11 witness: two primary releases in a row after an object had been
\* grabbed.
C11_Witness ==
  /\ IsLeftUp(ev) /\ IsLeftUp(prev.ev)
  /\ \E k \in 1..Len(objects) : objects[k].dragOffsetX # 0

\* C12: after a primary release no object is dragging and nothing else
\* changed: same sequence order, same bounds, dragOffset and colour.
C12_ReleaseClearsOnlyFlags ==
  [][ IsLeftUp(ev') =>
        /\ Len(objects') = Len(objects)
        /\ \A k \in 1..Len(objects) :
             /\ ~objects'[k].isDragging
             /\ objects'[k].rect = objects[k].rect
             /\ objects'[k].color = objects[k].color
             /\ objects'[k].dragOffsetX = objects[k].dragOffsetX
             /\ objects'[k].dragOffsetY = objects[k].dragOffsetY
    ]_vars

\* C12 witness: a primary release ended a drag whose grab offset was not 0.
C12_Witness ==
  /\ IsLeftUp(ev)
  /\ Dragging(objects) = {}
  /\ \E k \in Dragging(prev.objects) : prev.objects[k].dragOffsetX # 0

\* C13: a press or release of a button other than the primary one leaves the
\* whole registry unchanged; in particular it does not end a drag.
C13_NonPrimaryButtonIgnored ==
  [][ (ev'.type \in {"down", "up"} /\ ev'.button # SDL_BUTTON_LEFT) =>
        (objects' = objects /\ rng' = rng)
    ]_vars

\* C13 witness: a non-primary release arrived during a drag, which goes on.
C13_Witness ==
  /\ ev.type = "up" /\ ev.button # SDL_BUTTON_LEFT
  /\ Dragging(prev.objects) # {}
  /\ Dragging(objects) # {}

\* C14: when a primary press at p hit an object (bringing it to the end), a
\* primary release followed, and then a primary press at the same p, the
\* second press hits the same object and the sequence order is exactly the
\* one after the first press.
C14_RepeatedPressKeepsOrder ==
  [][ ( /\ IsLeftDown(ev') /\ IsLeftUp(ev) /\ IsLeftDown(prev.ev)
        /\ prev.ev.x = ev'.x /\ prev.ev.y = ev'.y
        /\ prev.objects[Len(prev.objects)].isDragging ) =>
        LET after1 == prev.objects
            n == Len(after1)
        IN /\ Len(objects') = n
           /\ \A k \in 1..n : /\ objects'[k].rect = after1[k].rect
                              /\ objects'[k].color = after1[k].color
           /\ objects'[n].isDragging
           /\ objects'[n].dragOffsetX = after1[n].dragOffsetX
           /\ objects'[n].dragOffsetY = after1[n].dragOffsetY
    ]_vars

\* C14 witness: the first initial object, grabbed at (110,110) and released,
\* was pressed again at (110,110); it is last and dragging, the other two
\* initial objects are below it in their order.
C14_Witness ==
  /\ IsLeftDown(ev) /\ ev.x = 110 /\ ev.y = 110
  /\ IsLeftUp(prev.ev)
  /\ Len(objects) = 3
  /\ prev.objects[3].rect.x = 100 /\ prev.objects[3].dragOffsetX = 10
  /\ ~prev.objects[3].isDragging
  /\ objects[3].rect.x = 100 /\ objects[3].isDragging
  /\ objects[1].rect.x = 300 /\ objects[2].rect.x = 500

\* C15: a move changes only bounds.x and bounds.y of dragging objects: an
\* object that is not dragging keeps all its fields, and sequence order,
\* width, height, colour, isDragging and dragOffset of all objects are kept.
C15_MoveFrame ==
  [][ ev'.type = "motion" =>
        /\ Len(objects') = Len(objects)
        /\ rng' = rng
        /\ \A k \in 1..Len(objects) :
             /\ ~objects[k].isDragging => objects'[k] = objects[k]
             /\ objects'[k].rect.w = objects[k].rect.w
             /\ objects'[k].rect.h = objects[k].rect.h
             /\ objects'[k].color = objects[k].color
             /\ objects'[k].isDragging = objects[k].isDragging
             /\ objects'[k].dragOffsetX = objects[k].dragOffsetX
             /\ objects'[k].dragOffsetY = objects[k].dragOffsetY
    ]_vars

\* C15 witness: a move displaced a dragging object, clamped at the canvas
\* border, next to objects that are not dragging.
C15_Witness ==
  /\ ev.type = "motion"
  /\ Len(prev.objects) = Len(objects)
  /\ \E k \in Dragging(objects) :
       /\ objects[k].rect # prev.objects[k].rect
       /\ objects[k].rect.x + objects[k].dragOffsetX # ev.x
  /\ \E k \in 1..Len(objects) : ~objects[k].isDragging

ColourAndSize(o) == <<o.color, o.rect.w, o.rect.h>>

CountOf(objs, c) == Cardinality({ k \in 1..Len(objs) : ColourAndSize(objs[k]) = c })

OpaqueAndSized(objs) ==
  \A k \in 1..Len(objs) :
    /\ objs[k].color.a = 255
    /\ objs[k].color.r \in 0..255 /\ objs[k].color.g \in 0..255
    /\ objs[k].color.b \in 0..255
    /\ objs[k].rect.w = 80 /\ objs[k].rect.h = 80

\* C16: every object has an opaque colour and size 80x80, fixed at creation:
\* each event either keeps the multiset of (colour, size) pairs of the
\* registry or adds the pair of one new object to it; the move-to-front of a
\* press hit carries colour and size with the object.
C16_ColourAndSizeFixed ==
  /\ OpaqueAndSized(objects)
  /\ [][ /\ OpaqueAndSized(objects')
         /\ IF Len(objects') = Len(objects)
            THEN \A k \in 1..Len(objects) :
                   CountOf(objects', ColourAndSize(objects[k])) =
                     CountOf(objects, ColourAndSize(objects[k]))
            ELSE /\ Len(objects') = Len(objects) + 1
                 /\ \A k \in 1..Len(objects) :
                      ColourAndSize(objects'[k]) = ColourAndSize(objects[k])
       ]_vars

\* C16 witness: a press moved the first object to the end and its colour
\* went with it.
C16_Witness ==
  /\ IsLeftDown(ev)
  /\ Len(objects) = Len(prev.objects)
  /\ objects[Len(objects)].isDragging
  /\ objects[Len(objects)].color = prev.objects[1].color
  /\ objects[1].color # prev.objects[1].color
  /\ objects[1].color = prev.objects[2].color

\* C18: every object, dragging or not, has 0 <= dragOffsetX < rect.w and
\* 0 <= dragOffsetY < rect.h in every reachable state.
C18_OffsetInsideObject ==
  \A k \in 1..Len(objects) :
    /\ 0 <= objects[k].dragOffsetX /\ objects[k].dragOffsetX < objects[k].rect.w
    /\ 0 <= objects[k].dragOffsetY /\ objects[k].dragOffsetY < objects[k].rect.h

\* C18 witness: an object was grabbed at its last inner pixel, so both
\* offsets have the largest value the bound admits.
C18_Witness ==
  \E k \in 1..Len(objects) :
    /\ objects[k].dragOffsetX = objects[k].rect.w - 1
    /\ objects[k].dragOffsetY = objects[k].rect.h - 1

IsStopEvent(e) == e.type = "quit" \/ (e.type = "keydown" /\ e.sym = SDLK_ESCAPE)

\* C17: running starts true, turns false only when a Quit or an Escape
\* key-down is dispatched (no mouse event and no other key stops the loop)
\* and never turns true again; the flag is tested once per cycle, so after the
\* stop the rest of the poll batch is still applied to the registry, exactly
\* one render follows, and then the loop terminates.
C17_RunningFlag ==
  /\ running = TRUE
  /\ [][ /\ (running /\ ~running') =>
               (pc = "poll" /\ queue # <<>> /\ ev' = Head(queue) /\ IsStopEvent(ev'))
         /\ ~running => ~running'
         /\ (pc # "exit" /\ pc' = "exit") =>
               (pc = "test" /\ ~running /\ stopFrames = 1)
         /\ pc = "exit" => pc' = "exit"
         /\ (~running /\ pc = "poll" /\ queue # <<>> /\ nev' = nev) =>
               LET e == Head(queue)
                   H == HitSet(objects, e.x, e.y)
               IN /\ ev' = e /\ queue' = Tail(queue) /\ pc' = "poll"
                  /\ (IsLeftDown(e) /\ H = {}) => Len(objects') = Len(objects) + 1
                  /\ (IsLeftDown(e) /\ H # {}) => objects'[Len(objects')].isDragging
                  /\ IsLeftUp(e) => Dragging(objects') = {}
       ]_vars
  /\ (~running ~> pc = "exit")

\* C17 witness: the loop has terminated after one render; a primary press
\* that followed the quit request in the same batch created a fourth object.
C17_Witness ==
  /\ pc = "exit" /\ ~running /\ stopFrames = 1
  /\ IsLeftDown(ev) /\ ev.x = 750
  /\ IsStopEvent(prev.ev)
  /\ Len(objects) = 4 /\ Len(prev.objects) = 3

RectInWindow(st) ==
  /\ 0 <= st.rect.x /\ st.rect.x <= 800 - 100
  /\ 0 <= st.rect.y /\ st.rect.y <= 600 - 100

\* C19: in the single-rectangle program the rectangle is fully inside the
\* window in every reachable state, it moves only on a move event while
\* isDragging is true, and isDragging turns true only on a left press that
\* passes the inclusive test rect.x <= mx <= rect.x + w, rect.y <= my <=
\* rect.y + h (a press on the right or bottom edge starts a drag whose stored
\* offset equals the width or height).
C19_SingleRectangle ==
  /\ RectInWindow(state)
  /\ [][ /\ RectInWindow(state')
         /\ state'.rect # state.rect => (state.isDragging /\ ev'.type = "motion")
         /\ (~state.isDragging /\ state'.isDragging) =>
              /\ IsLeftDown(ev')
              /\ state.rect.x <= ev'.x /\ ev'.x - state.rect.x <= state.rect.w
              /\ state.rect.y <= ev'.y /\ ev'.y - state.rect.y <= state.rect.h
       ]_vars

\* C19 witness: a drag started by a press on the far corner of the rectangle
\* (offset equal to width and height) has moved it to the window border.
C19_Witness ==
  /\ ev.type = "motion"
  /\ state.isDragging
  /\ state.x = state.rect.w /\ state.y = state.rect.h
  /\ state.rect.x = 699 /\ state.rect.y = 499

====
